---------------------------- MODULE Spec2Model ----------------------------
(***************************************************************************)
(* Wav2Bin (src/Mac/Wav2Bin/main.cpp): WAV files are concatenated into a   *)
(* sector-aligned BIN image and a CUE sheet is written for it.             *)
(*                                                                         *)
(* The model follows main(): the usage check, convertWAVToBIN (one step    *)
(* for opening the BIN, one step per input WAV, one step for the loop      *)
(* exit) and writeCUEFile.                                                 *)
(*                                                                         *)
(* 32-bit byte counts.  TLC's integers are 32-bit signed, so an unsigned   *)
(* 32-bit byte count v is held as the record [q, r] with                   *)
(*     v = q * CD_SECTOR_SIZE + r   and   0 <= r < CD_SECTOR_SIZE.         *)
(* The largest value, 2^32 - 1, is [q |-> U32_MAX_Q, r |-> U32_MAX_R].     *)
(* Frame counts stay far below 2^31 for the input counts explored and are  *)
(* plain integers.                                                         *)
(***************************************************************************)
EXTENDS Integers, Sequences, FiniteSets, TLC

CD_SECTOR_SIZE == 2352
CD_FRAMES_PER_SECOND == 75
CD_BYTES_PER_FRAME == CD_SECTOR_SIZE

\* The longest list of input WAV paths explored.
MaxInputs == 3

-----------------------------------------------------------------------------
(* uint32_t byte counts as [q, r] *)

\* 2^32 = 16 * 2^28 and CD_SECTOR_SIZE = 16 * 147, so
\* 2^32 \div 2352 = 2^28 \div 147 and 2^32 % 2352 = 16 * (2^28 % 147).
U32_MAX_Q == (2^28) \div (CD_SECTOR_SIZE \div 16)
U32_MAX_R == 16 * ((2^28) % (CD_SECTOR_SIZE \div 16)) - 1

U32(q, r) == [q |-> q, r |-> r]
U32_MAX == U32(U32_MAX_Q, U32_MAX_R)

\* a < b, a <= b on byte counts
Lt(a, b) == a.q < b.q \/ (a.q = b.q /\ a.r < b.r)
Le(a, b) == a.q < b.q \/ (a.q = b.q /\ a.r <= b.r)
MinB(a, b) == IF Le(a, b) THEN a ELSE b

\* a + b on byte counts (no width: used for positions in the BIN file)
AddB(a, b) ==
    U32(a.q + b.q + ((a.r + b.r) \div CD_SECTOR_SIZE), (a.r + b.r) % CD_SECTOR_SIZE)


-----------------------------------------------------------------------------
(* alignedSize: main.cpp line 87 *)

\* std::ceil(static_cast<double>(rawAudioSize) / CD_SECTOR_SIZE).  A double
\* holds every uint32_t exactly; the quotient of a non-multiple lies at least
\* 1/2352 above an integer below 2^21, far more than a double's rounding
\* error there, so the ceiling is the exact integer ceiling.
CeilSectors(raw) == raw.q + (IF raw.r > 0 THEN 1 ELSE 0)

\* (double)(n * CD_SECTOR_SIZE) - 2^32, as a byte count: the low 32 bits of
\* a product that does not fit.
WrapU32(n) ==
    LET over == (n - U32_MAX_Q) * CD_SECTOR_SIZE - (U32_MAX_R + 1)
    IN  U32(over \div CD_SECTOR_SIZE, over % CD_SECTOR_SIZE)

\* uint32_t alignedSize = <double>: the set of values the conversion can
\* give.  The product n * 2352 is exact in a double.  When it exceeds
\* 2^32 - 1 the conversion is undefined: a build that converts through a
\* 64-bit integer keeps the low 32 bits, a build with a saturating convert
\* instruction gives 2^32 - 1.
AlignedSize(raw) ==
    LET n == CeilSectors(raw)
    IN  IF n <= U32_MAX_Q THEN {U32(n, 0)} ELSE {WrapU32(n), U32_MAX}

\* alignedSize / CD_BYTES_PER_FRAME, an unsigned division that drops the
\* remainder: (q * 2352 + r) / 2352 = q
FramesOf(aligned) == aligned.q

-----------------------------------------------------------------------------
(* WAVHeader and the files the run can name *)

Hdr(chunkID, format, audioFormat, numChannels, sampleRate, bitsPerSample, subchunk2ID, subchunk2Size) ==
    [chunkID |-> chunkID, chunkSize |-> 36, format |-> format,
     subchunk1ID |-> "fmt ", subchunk1Size |-> 16,
     audioFormat |-> audioFormat, numChannels |-> numChannels,
     sampleRate |-> sampleRate,
     byteRate |-> 0, blockAlign |-> 0,
     bitsPerSample |-> bitsPerSample,
     subchunk2ID |-> subchunk2ID, subchunk2Size |-> subchunk2Size]

\* sizeof(WAVHeader): 4+4+4+4+4+2+2+4+4+2+2+4+4
SizeofWAVHeader == 4 + 4 + 4 + 4 + 4 + 2 + 2 + 4 + 4 + 2 + 2 + 4 + 4

\* A path, split the way std::filesystem::path splits it.
Path(parent, stem, ext) == [parent |-> parent, stem |-> stem, ext |-> ext]
PathString(p) == p.parent \o p.stem \o p.ext
\* std::filesystem::path(p).stem().string()
Stem(p) == p.stem

CdHdr(size) == Hdr("RIFF", "WAVE", 1, 2, 44100, 16, "data", size)

\* A file: whether it can be opened, how many of its first 44 bytes exist,
\* the header those bytes hold, and how many payload bytes follow them.
File(path, exists, hdrBytes, header, payload) ==
    [path |-> path, exists |-> exists, hdrBytes |-> hdrBytes,
     header |-> header, payload |-> payload]

Files ==
    { \* 75 sectors exactly, payload complete
      File(Path("", "a", ".wav"), TRUE, SizeofWAVHeader,
           CdHdr(U32(75, 0)), U32(75, 0)),
      \* 4 sectors + 1 byte, mono 8 kHz 8 bit, more bytes follow the payload
      File(Path("in/", "b", ".wav"), TRUE, SizeofWAVHeader,
           Hdr("RIFF", "WAVE", 1, 1, 8000, 8, "LIST", U32(4, 1)), U32(6, 0)),
      \* one byte short of 4500 sectors, payload cut to 100 bytes
      File(Path("", "c", ".wav"), TRUE, SizeofWAVHeader,
           CdHdr(U32(4499, CD_SECTOR_SIZE - 1)), U32(0, 100)),
      \* 100 minutes of frames, payload cut
      File(Path("", "d", ".wav"), TRUE, SizeofWAVHeader,
           CdHdr(U32(100 * 60 * CD_FRAMES_PER_SECOND, 0)), U32(1, 0)),
      \* no payload
      File(Path("", "e", ".wav"), TRUE, SizeofWAVHeader,
           CdHdr(U32(0, 0)), U32(0, 0)),
      \* the largest size whose rounding fits 32 bits
      File(Path("", "f", ".wav"), TRUE, SizeofWAVHeader,
           CdHdr(U32(U32_MAX_Q, 0)), U32(0, 7)),
      \* sizes whose rounding does not fit 32 bits
      File(Path("", "g", ".wav"), TRUE, SizeofWAVHeader,
           CdHdr(U32(U32_MAX_Q, 1)), U32(0, 500)),
      File(Path("", "h", ".wav"), TRUE, SizeofWAVHeader,
           CdHdr(U32_MAX), U32(0, 2000)),
      \* headers the validation rejects
      File(Path("", "i", ".wav"), TRUE, SizeofWAVHeader,
           Hdr("RIFX", "WAVE", 1, 2, 44100, 16, "data", U32(1, 0)), U32(1, 0)),
      File(Path("", "j", ".avi"), TRUE, SizeofWAVHeader,
           Hdr("RIFF", "AVI ", 1, 2, 44100, 16, "data", U32(1, 0)), U32(1, 0)),
      File(Path("", "k", ".wav"), TRUE, SizeofWAVHeader,
           Hdr("RIFF", "WAVE", 3, 2, 44100, 32, "data", U32(1, 0)), U32(1, 0)),
      \* an empty file: no header bytes at all
      File(Path("", "l", ".wav"), TRUE, 0, CdHdr(U32(0, 0)), U32(0, 0)),
      \* a path that cannot be opened
      File(Path("gone/", "m", ".wav"), FALSE, 0, CdHdr(U32(0, 0)), U32(0, 0)) }

Paths == {f.path : f \in Files}
FileAt(p) == CHOOSE f \in Files : f.path = p

\* What the stack slot of `WAVHeader header` holds before anything was read
\* into it.
StackGarbage == Hdr("????", "????", 0, 0, 0, 0, "????", U32(0, 0))

\* Values an uninitialised WAVHeader can turn out to hold: bytes that are no
\* header, and bytes that happen to be one.
StackValues == {StackGarbage, CdHdr(U32(0, 1))}

-----------------------------------------------------------------------------
VARIABLES
    argc,                \* main's argc
    wavFilePaths,        \* argv[3..]
    pc,                  \* where main is
    exitCode,            \* main's return value, -1 until it returns
    errMsg,              \* ex.what() of the exception caught, "" if none
    stdout,              \* what was printed to std::cout
    binFile,             \* the BIN file: state and the blocks written
    cueFile,             \* the CUE file: state and the lines written
    header,              \* the bytes of the local `header`
    tracks,              \* std::vector<TrackInfo>
    currentOffsetFrames, \* convertWAVToBIN's running counter
    log                  \* per input reached: what the iteration did

vars == <<argc, wavFilePaths, pc, exitCode, errMsg, stdout, binFile, cueFile,
          header, tracks, currentOffsetFrames, log>>

binFilePath == "out/image.bin"
cueFilePath == "out/image.cue"

PathLists == UNION {[1..n -> Paths] : n \in 1..MaxInputs}

Init ==
    /\ \/ argc \in 1..3 /\ wavFilePaths = <<>>
       \/ wavFilePaths \in PathLists /\ argc = 3 + Len(wavFilePaths)
    /\ pc = "main"
    /\ exitCode = -1
    /\ errMsg = ""
    /\ stdout = <<>>
    /\ binFile = [state |-> "untouched", blocks |-> <<>>]
    /\ cueFile = [state |-> "untouched", lines |-> <<>>]
    /\ header = StackGarbage
    /\ tracks = <<>>
    /\ currentOffsetFrames = 0
    /\ log = <<>>

-----------------------------------------------------------------------------
(* operator<< on the CUE stream *)

Digit(d) == <<"0", "1", "2", "3", "4", "5", "6", "7", "8", "9">>[d + 1]

\* the decimal digits of an unsigned value
RECURSIVE Decimal(_)
Decimal(n) == IF n < 10 THEN Digit(n) ELSE Decimal(n \div 10) \o Digit(n % 10)

RECURSIVE Fill(_, _)
Fill(c, n) == IF n <= 0 THEN "" ELSE c \o Fill(c, n - 1)

\* os << n with os.width() = w and os.fill() = c: the digits, right-aligned,
\* filled up to w characters when they are fewer; never cut.
PutUnsigned(n, w, c) == Fill(c, w - Len(Decimal(n))) \o Decimal(n)

\* cueFile << "  TRACK " << (i + 1) << " AUDIO\n": no setw precedes the
\* number, so the width is 0 whatever the fill character is by then.
TrackLine(number) == "  TRACK " \o PutUnsigned(number, 0, " ") \o " AUDIO"

TitleLine(title) == "    TITLE \"" \o title \o "\""

\* the three timecode fields of lines 55-57
Minutes(offsetFrames) == offsetFrames \div (CD_FRAMES_PER_SECOND * 60)
\* the seconds field without "% 60"
Seconds_NoWrap(offsetFrames) == offsetFrames \div CD_FRAMES_PER_SECOND
Seconds(offsetFrames) == (offsetFrames \div CD_FRAMES_PER_SECOND) % 60
Frames(offsetFrames) == offsetFrames % CD_FRAMES_PER_SECOND

\* each field after std::setw(2) << std::setfill('0')
IndexLine(offsetFrames) ==
    "    INDEX 01 " \o PutUnsigned(Minutes(offsetFrames), 2, "0") \o ":"
                    \o PutUnsigned(Seconds(offsetFrames), 2, "0") \o ":"
                    \o PutUnsigned(Frames(offsetFrames), 2, "0")

FileLine(binFileName) == "FILE \"" \o binFileName \o "\" BINARY"

\* the loop of lines 50-58, from index i (1-based here, i - 1 in the code)
RECURSIVE TrackLines(_, _)
TrackLines(ts, i) ==
    IF i > Len(ts) THEN <<>>
    ELSE <<TrackLine(i), TitleLine(ts[i].title), IndexLine(ts[i].offsetFrames)>>
         \o TrackLines(ts, i + 1)

CueText(binFileName, ts) == <<FileLine(binFileName)>> \o TrackLines(ts, 1)

-----------------------------------------------------------------------------
(* main and the exceptions it catches *)

\* the usage check one argument short: "argc < 3"
UsageError_OffByOne(n) == n < 3
\* if (argc < 4)
UsageError(n) == n < 4

\* the exception caught around convertWAVToBIN alone: main goes on to
\* writeCUEFile
Throw_Continue(msg) ==
    /\ pc' = "cue"
    /\ exitCode' = exitCode
    /\ errMsg' = msg

\* throw std::runtime_error(msg) inside main's try block: the catch prints
\* "Error: <msg>" and main returns 1.
Throw(msg) ==
    /\ pc' = "exited"
    /\ exitCode' = 1
    /\ errMsg' = msg

OpenErrorMsg(p) == "Failed to open WAV file: " \o PathString(p)
\* the message without the path, as the BIN and CUE messages are
FormatErrorMsg_NoPath(p) == "Invalid or unsupported WAV file format."
FormatErrorMsg(p) == "Invalid or unsupported WAV file format: " \o PathString(p)

Main ==
    /\ pc = "main"
    /\ \/ /\ UsageError(argc)
          /\ stdout' = Append(stdout, "Wav2Bin (c) 2024 Lorenzo Bachman")
          /\ pc' = "exited"
          /\ exitCode' = 1
       \/ /\ ~UsageError(argc)
          /\ pc' = "openBin"
          /\ UNCHANGED <<stdout, exitCode>>
    /\ UNCHANGED <<argc, wavFilePaths, errMsg, binFile, cueFile, header,
                   tracks, currentOffsetFrames, log>>

-----------------------------------------------------------------------------
(* convertWAVToBIN *)

\* std::ofstream binFile(binFilePath, std::ios::binary): the file is created
\* or truncated, or the open fails.
OpenBin ==
    /\ pc = "openBin"
    /\ \/ /\ binFile' = [state |-> "open", blocks |-> <<>>]
          /\ currentOffsetFrames' = 0
          /\ pc' = "loop"
          /\ UNCHANGED <<exitCode, errMsg>>
       \/ /\ Throw("Failed to open BIN file for writing.")
          /\ UNCHANGED <<binFile, currentOffsetFrames>>
    /\ UNCHANGED <<argc, wavFilePaths, stdout, cueFile, header, tracks, log>>

\* The header after wavFile.read(&header, sizeof(WAVHeader)).  A file with
\* the 44 bytes gives its header.  A file without them leaves the struct's
\* bytes as they were: never initialised, they hold whatever the stack slot
\* held (the previous iteration's header, or anything else).
HeaderAfterRead(f, old) ==
    IF f.hdrBytes >= SizeofWAVHeader THEN {f.header}
    ELSE {old} \cup StackValues

\* a validation that also insists on the "data" chunk id
ValidHeader_Strict(h) ==
    ~(h.chunkID # "RIFF" \/ h.format # "WAVE" \/ h.audioFormat # 1
        \/ h.subchunk2ID # "data")

\* line 81, negated
ValidHeader(h) ==
    ~(h.chunkID # "RIFF" \/ h.format # "WAVE" \/ h.audioFormat # 1)

\* The bytes wavFile.read(audioData.data(), rawAudioSize) stores: none when
\* the header read already failed (the stream is in a failed state),
\* otherwise as many as the file has, up to rawAudioSize.
BytesRead(f, raw) ==
    IF f.hdrBytes < SizeofWAVHeader THEN U32(0, 0) ELSE MinB(raw, f.payload)

\* std::vector<char> audioData(alignedSize, 0) after the read: `data` bytes
\* of the file, then bytes of value `pad` up to `len`.
AudioData(aligned, nread) ==
    [len |-> aligned, data |-> MinB(nread, aligned), pad |-> 0]

\* "=" written for "+="
NextOffsetFrames_Assign(cur, aligned) == FramesOf(aligned)

\* currentOffsetFrames += alignedSize / CD_BYTES_PER_FRAME.  The counter is a
\* uint32_t; a track adds at most U32_MAX_Q frames, so it stays below 2^32
\* (and below 2^31) for any list of fewer than 1176 inputs.
NextOffsetFrames(cur, aligned) == cur + FramesOf(aligned)

\* TrackInfo of lines 98-100
NewTrack(p, cur) == [title |-> Stem(p), offsetFrames |-> cur]

Entry(p, outcome, h, raw, aligned, nread) ==
    [path |-> p, outcome |-> outcome, header |-> h, rawSize |-> raw,
     alignedSize |-> aligned, bytesRead |-> nread,
     offsetFrames |-> currentOffsetFrames]

\* lines 94-104
WriteBlock(p, h, aligned, nread, outcome) ==
    /\ binFile' = [binFile EXCEPT !.blocks = Append(@, AudioData(aligned, nread))]
    /\ tracks' = Append(tracks, NewTrack(p, currentOffsetFrames))
    /\ currentOffsetFrames' = NextOffsetFrames(currentOffsetFrames, aligned)
    /\ header' = h
    /\ log' = Append(log, Entry(p, outcome, h, h.subchunk2Size, aligned, nread))
    /\ UNCHANGED <<pc, exitCode, errMsg>>

\* one iteration of the loop of lines 69-105
ProcessWav ==
    /\ pc = "loop"
    /\ Len(log) < Len(wavFilePaths)
    /\ LET p == wavFilePaths[Len(log) + 1]
           f == FileAt(p)
           Zero == U32(0, 0)
       IN  \/ /\ ~f.exists
              /\ Throw(OpenErrorMsg(p))
              /\ log' = Append(log, Entry(p, "openfail", header, Zero, Zero, Zero))
              /\ binFile' = [binFile EXCEPT !.state = "closed"]
              /\ UNCHANGED <<header, tracks, currentOffsetFrames>>
           \/ /\ f.exists
              /\ \E h \in HeaderAfterRead(f, header) :
                   \/ /\ ~ValidHeader(h)
                      /\ Throw(FormatErrorMsg(p))
                      /\ header' = h
                      /\ log' = Append(log, Entry(p, "reject", h, Zero, Zero, Zero))
                      /\ binFile' = [binFile EXCEPT !.state = "closed"]
                      /\ UNCHANGED <<tracks, currentOffsetFrames>>
                   \/ /\ ValidHeader(h)
                      /\ \E alignedSize \in AlignedSize(h.subchunk2Size) :
                           LET nread == BytesRead(f, h.subchunk2Size)
                           IN  \/ /\ Le(nread, alignedSize)
                                  /\ WriteBlock(p, h, alignedSize, nread, "ok")
                               \* The read stores nread bytes in a buffer of
                               \* alignedSize < nread bytes: the heap is
                               \* overrun.  The process dies of it ...
                               \/ /\ Lt(alignedSize, nread)
                                  /\ pc' = "crashed"
                                  /\ header' = h
                                  /\ log' = Append(log, Entry(p, "crash", h,
                                               h.subchunk2Size, alignedSize, nread))
                                  /\ UNCHANGED <<exitCode, errMsg, binFile, tracks,
                                                 currentOffsetFrames>>
                               \* ... or runs on.
                               \/ /\ Lt(alignedSize, nread)
                                  /\ WriteBlock(p, h, alignedSize, nread, "overrun")
    /\ UNCHANGED <<argc, wavFilePaths, stdout, cueFile>>

\* the loop is over: binFile.close() and return
ConvertReturn ==
    /\ pc = "loop"
    /\ Len(log) = Len(wavFilePaths)
    /\ binFile' = [binFile EXCEPT !.state = "closed"]
    /\ pc' = "cue"
    /\ UNCHANGED <<argc, wavFilePaths, exitCode, errMsg, stdout, cueFile, header,
                   tracks, currentOffsetFrames, log>>

-----------------------------------------------------------------------------
(* writeCUEFile, and main's return *)

writeCUEFile ==
    /\ pc = "cue"
    /\ \/ /\ cueFile' = [state |-> "closed", lines |-> CueText(binFilePath, tracks)]
          /\ stdout' = Append(stdout, "Conversion completed successfully.")
          /\ pc' = "exited"
          /\ exitCode' = 0
          /\ UNCHANGED errMsg
       \/ /\ Throw("Failed to open CUE file for writing.")
          /\ UNCHANGED <<cueFile, stdout>>
    /\ UNCHANGED <<argc, wavFilePaths, binFile, header, tracks,
                   currentOffsetFrames, log>>

Next == Main \/ OpenBin \/ ProcessWav \/ ConvertReturn \/ writeCUEFile

Spec == Init /\ [][Next]_vars

-----------------------------------------------------------------------------
(* Properties *)

\* the inputs whose header was accepted
Accepted(i) == log[i].outcome \in {"ok", "overrun", "crash"}
\* the inputs for which a block and a TrackInfo were written
Written(i) == log[i].outcome \in {"ok", "overrun"}
Failed(i) == log[i].outcome \in {"openfail", "reject"}

\* sum of alignedSize / 2352 over inputs 1..n
RECURSIVE SumFrames(_)
SumFrames(n) == IF n = 0 THEN 0 ELSE SumFrames(n - 1) + log[n].alignedSize.q

\* the byte position in the BIN at which block i begins
RECURSIVE BlockStart(_)
BlockStart(i) ==
    IF i = 1 THEN U32(0, 0) ELSE AddB(BlockStart(i - 1), binFile.blocks[i - 1].len)

\* a number below 100 as two digits; a larger one as its digits
ZeroPad2(n) == IF n < 10 THEN "0" \o Decimal(n) ELSE Decimal(n)

\* C1: for every input whose header passes validation, alignedSize is a
\* multiple of 2352, is at least rawSize, and exceeds it by less than 2352.
C1_AlignedSizeRoundsUp ==
    \A i \in 1..Len(log) :
        Accepted(i) =>
            LET raw == log[i].rawSize
                aligned == log[i].alignedSize
                dq == aligned.q - raw.q
            IN  /\ aligned.r = 0
                /\ Le(raw, aligned)
                /\ dq \in {0, 1}
                /\ dq * CD_SECTOR_SIZE + aligned.r - raw.r < CD_SECTOR_SIZE

\* C2: the track list has one entry per input processed, in input order;
\* track 0 has offsetFrames 0 and track i has the sum of alignedSize / 2352
\* over the tracks before it; once convertWAVToBIN has returned there is an
\* entry for every input.
C2_OffsetsArePrefixSums ==
    /\ Len(tracks) = Cardinality({i \in 1..Len(log) : Written(i)})
    /\ \A i \in 1..Len(tracks) :
          /\ Written(i)
          /\ tracks[i].title = wavFilePaths[i].stem
          /\ tracks[i].offsetFrames = SumFrames(i - 1)
          /\ i = 1 => tracks[i].offsetFrames = 0
    /\ pc = "cue" => Len(tracks) = Len(wavFilePaths)

C2_Witness ==
    /\ pc = "cue"
    /\ Len(tracks) = 3
    /\ tracks[2].offsetFrames > 0
    /\ tracks[3].offsetFrames > tracks[2].offsetFrames

\* the INDEX line of track i of the CUE file written
IndexLineOf(i) == cueFile.lines[3 * i + 1]
ExpectedIndex(off) ==
    "    INDEX 01 " \o ZeroPad2(off \div 4500) \o ":"
                    \o ZeroPad2((off \div 75) % 60) \o ":" \o ZeroPad2(off % 75)

\* C3 as stated: every INDEX line is MM:SS:FF with MM = offsetFrames / 4500,
\* SS = (offsetFrames / 75) mod 60, FF = offsetFrames mod 75, each field
\* exactly 2 digits.
C3_EveryFieldTwoDigits ==
    cueFile.state = "closed" =>
        \A i \in 1..Len(tracks) :
            /\ IndexLineOf(i) = ExpectedIndex(tracks[i].offsetFrames)
            /\ Len(IndexLineOf(i)) = Len("    INDEX 01 ") + 8

\* C3 amended: the fields have those values; SS and FF are exactly 2 digits;
\* MM is 2 digits when offsetFrames < 450000 and all its digits (3 or more)
\* otherwise; 0, 75, 80, 4500 give 00:00:00, 00:01:00, 00:01:05, 01:00:00.
C3_TimecodeFields ==
    cueFile.state = "closed" =>
        \A i \in 1..Len(tracks) :
            LET off == tracks[i].offsetFrames
                line == IndexLineOf(i)
            IN  /\ line = ExpectedIndex(off)
                /\ Len(ZeroPad2((off \div 75) % 60)) = 2
                /\ Len(ZeroPad2(off % 75)) = 2
                /\ off < 450000 => Len(line) = Len("    INDEX 01 ") + 8
                /\ off >= 450000 =>
                      Len(line) = Len("    INDEX 01 ") + 6 + Len(Decimal(off \div 4500))
                /\ off >= 450000 => Len(Decimal(off \div 4500)) >= 3
                /\ off = 0 => line = "    INDEX 01 00:00:00"
                /\ off = 75 => line = "    INDEX 01 00:01:00"
                /\ off = 80 => line = "    INDEX 01 00:01:05"
                /\ off = 4500 => line = "    INDEX 01 01:00:00"

C3_Witness ==
    /\ cueFile.state = "closed"
    /\ Len(tracks) = 3
    /\ tracks[2].offsetFrames = 450000
    /\ IndexLineOf(2) = "    INDEX 01 100:00:00"
    /\ IndexLineOf(3) = "    INDEX 01 100:01:00"

\* C4: the cue sheet is one FILE line, then for each track k = 1..n the
\* lines TRACK, TITLE, INDEX, the TRACK line carrying k as a two-digit
\* zero-padded number ("  TRACK 01 AUDIO").
C4_TrackNumberTwoDigits ==
    cueFile.state = "closed" =>
        /\ Len(cueFile.lines) = 1 + 3 * Len(tracks)
        /\ cueFile.lines[1] = "FILE \"" \o binFilePath \o "\" BINARY"
        /\ \A k \in 1..Len(tracks) :
              /\ cueFile.lines[3 * k - 1] = "  TRACK " \o ZeroPad2(k) \o " AUDIO"
              /\ cueFile.lines[3 * k] = "    TITLE \"" \o tracks[k].title \o "\""
              /\ cueFile.lines[3 * k + 1] = ExpectedIndex(tracks[k].offsetFrames)

\* C5: every accepted input gets a block of alignedSize bytes whose bytes
\* at [rawSize, alignedSize) are zero; an input with fewer than rawSize
\* payload bytes raises no error, still gets a block of alignedSize bytes,
\* and every byte after those read is zero.
C5_PaddingIsZero ==
    \A i \in 1..Len(log) :
        Accepted(i) =>
            LET raw == log[i].rawSize
                aligned == log[i].alignedSize
                nread == log[i].bytesRead
            IN  /\ Lt(nread, raw) => log[i].outcome # "crash"
                /\ Written(i) =>
                      LET b == binFile.blocks[i]
                      IN  /\ b.len = aligned
                          /\ Lt(raw, aligned) => (Le(b.data, raw) /\ b.pad = 0)
                          /\ Lt(nread, raw) /\ Lt(nread, aligned) =>
                                (Le(b.data, nread) /\ b.pad = 0)

\* C6: after a successful convertWAVToBIN the BIN is the tracks' blocks in
\* input order, each alignedSize long, and each track's offsetFrames * 2352
\* is the byte position at which its block begins.
C6_OffsetIsBlockStart ==
    pc = "cue" =>
        /\ Len(binFile.blocks) = Len(wavFilePaths)
        /\ Len(tracks) = Len(wavFilePaths)
        /\ \A i \in 1..Len(tracks) :
              /\ binFile.blocks[i].len = log[i].alignedSize
              /\ U32(tracks[i].offsetFrames, 0) = BlockStart(i)

\* C7: when input k cannot be opened or fails validation, the run ends
\* with an error naming that input's path; nothing is recorded or written
\* for input k, no later input is reached, and the track list and the BIN are
\* those of inputs 0..k-1.
C7_FailureStopsTheLoop ==
    \A k \in 1..Len(log) :
        Failed(k) =>
            LET p == wavFilePaths[k]
                name == p.parent \o p.stem \o p.ext
            IN  /\ pc = "exited" /\ exitCode = 1
                /\ log[k].outcome = "openfail" =>
                      errMsg = "Failed to open WAV file: " \o name
                /\ log[k].outcome = "reject" =>
                      errMsg = "Invalid or unsupported WAV file format: " \o name
                /\ Len(log) = k
                /\ Len(tracks) = k - 1
                /\ Len(binFile.blocks) = k - 1
                /\ \A i \in 1..(k - 1) :
                      /\ Written(i)
                      /\ tracks[i] = [title |-> wavFilePaths[i].stem,
                                      offsetFrames |-> log[i].offsetFrames]
                      /\ binFile.blocks[i].len = log[i].alignedSize

C7_Witness ==
    /\ Len(log) = 3
    /\ log[3].outcome = "reject"
    /\ log[3].header.chunkID # "RIFF"
    /\ Len(tracks) = 2
    /\ Len(binFile.blocks) = 2
    /\ pc = "exited"

\* C8: an input that opens is rejected exactly when chunkID # "RIFF" or
\* format # "WAVE" or audioFormat # 1; no other header field matters.
C8_ValidationCondition ==
    \A i \in 1..Len(log) :
        log[i].outcome # "openfail" =>
            LET h == log[i].header
            IN  (log[i].outcome = "reject") <=>
                    (h.chunkID # "RIFF" \/ h.format # "WAVE" \/ h.audioFormat # 1)

C8_Witness ==
    /\ Len(log) = 2
    /\ log[1].outcome = "ok"
    /\ log[1].header.numChannels = 1
    /\ log[1].header.sampleRate = 8000
    /\ log[1].header.bitsPerSample = 8
    /\ log[1].header.subchunk2ID = "LIST"
    /\ log[2].outcome = "reject"
    /\ log[2].header.audioFormat = 3

\* C9: main returns 0 exactly when an input path was given and BIN assembly
\* and CUE emission both completed without error; without an input path it
\* returns 1 and touches no file; after an open or validation error it
\* returns 1.
C9_ExitCode ==
    /\ exitCode = 0 <=>
          /\ pc = "exited"
          /\ argc >= 4
          /\ Len(wavFilePaths) >= 1
          /\ errMsg = ""
          /\ Len(log) = Len(wavFilePaths)
          /\ \A i \in 1..Len(log) : Written(i)
          /\ binFile.state = "closed"
          /\ cueFile.state = "closed"
    /\ pc = "exited" => exitCode \in {0, 1}
    /\ argc < 4 =>
          /\ pc = "exited" => exitCode = 1
          /\ binFile.state = "untouched"
          /\ cueFile.state = "untouched"
          /\ log = <<>>
    /\ (errMsg # "" \/ \E i \in 1..Len(log) : Failed(i)) =>
          (pc = "exited" /\ exitCode = 1)

C9_Witness ==
    /\ pc = "exited"
    /\ exitCode = 0
    /\ Len(tracks) = 2
    /\ cueFile.state = "closed"

\* C10: the CUE file is opened and written only after convertWAVToBIN has
\* finished every input without error; when BIN assembly fails the CUE
\* file is never touched, though the BIN may hold blocks already.
C10_CueOnlyAfterBin ==
    /\ cueFile.state # "untouched" =>
          /\ errMsg = ""
          /\ binFile.state = "closed"
          /\ Len(log) = Len(wavFilePaths)
          /\ \A i \in 1..Len(log) : Written(i)
    /\ (pc = "crashed" \/ binFile.state = "untouched"
           \/ \E i \in 1..Len(log) : ~Written(i)) =>
          (cueFile.state = "untouched" /\ cueFile.lines = <<>>)

C10_Witness ==
    /\ pc = "exited"
    /\ exitCode = 1
    /\ Len(log) = 2
    /\ log[2].outcome = "openfail"
    /\ binFile.state = "closed"
    /\ Len(binFile.blocks) = 1
    /\ cueFile.state = "untouched"

=============================================================================
